---- MODULE Spec2Model ----
(***************************************************************************)
(* Model of the content-coordinator workflow of src/app/page.tsx: the      *)
(* WorkflowResult state of HomePage, callAgent, and the two async handlers *)
(* handleGenerateDraft and handleRegenerateDraft, each split at its awaits. *)
(***************************************************************************)
EXTENDS Integers, Sequences, FiniteSets, TLC

(* ------------------------------ bounds --------------------------------- *)
\* number of handler invocations that can be in progress at the same time
MaxRuns == 2
\* longest news_summary array an agent reply carries
MaxItems == 4
\* pending timers that reset the copied flag
MaxTimers == 2

Runs == 1..MaxRuns

(* --------------------------- JSON values ------------------------------- *)
\* Every value is a record with a type field, as typeof / null tests see it.
Undefined == [type |-> "undefined"]
JNull == [type |-> "null"]
\* A string value is modelled by what JSON.parse makes of its characters:
\* the value it denotes, or NotJSON when the characters are not JSON text.
NotJSON == [type |-> "notjson"]
JString(denotes) == [type |-> "string", parsesTo |-> denotes]
JArray(elems) == [type |-> "array", elems |-> elems]
\* An object is modelled by the three properties the handlers read.
JObject(ns, pp, dm) ==
    [type |-> "object", news_summary |-> ns, personality_profile |-> pp,
     draft_message |-> dm]

\* NewsItem (lines 12-20): headline and relevance_score, the score in tenths.
\* The agent's ranking is not by score, and item 2 has score 1.5.
Scores == <<3, 15, 9, 7, 5, 8>>
NewsItem(i) == [headline |-> i, relevance_score |-> Scores[i]]
Feed(n) == [i \in 1..n |-> NewsItem(i)]

\* NewsResponse, PersonalityResponse, DraftResponse values (lines 29-67)
NewsResponse(n) == JObject(JArray(Feed(n)), Undefined, Undefined)
PersonalityResponse(p) ==
    JObject(Undefined, [type |-> "object", tone |-> p], Undefined)
DraftResponse(m) == JObject(Undefined, Undefined, [type |-> "text", id |-> m])
EmptyObject == JObject(Undefined, Undefined, Undefined)

\* AGENT_IDS (lines 88-92)
AGENT_IDS == [news |-> "news", personality |-> "personality", draft |-> "draft"]

\* The contents an agent may put in data.response, well shaped or not.
Contents(agent) ==
    CASE agent = "news" ->
            {EmptyObject} \cup {NewsResponse(n) : n \in {1, MaxItems}}
      [] agent = "personality" -> {JNull, EmptyObject, PersonalityResponse("p1")}
      [] agent = "draft" -> {JNull, DraftResponse("d1")}

\* data.response: the content as a structured value, the content serialized
\* into a string, or a string that is not JSON text.
Payloads(agent) ==
    Contents(agent) \cup {JString(c) : c \in Contents(agent)} \cup {JString(NotJSON)}

\* What the await of fetch / response.json() yields (lines 95-104).
TransportFailure == [transport |-> "failed", success |-> FALSE, response |-> Undefined]
Ok(payload) == [transport |-> "ok", success |-> TRUE, response |-> payload]
AllReplies ==
    [agent \in {"news", "personality", "draft"} |->
        {TransportFailure} \cup
        {Ok(p) : p \in Payloads(agent)} \cup
        {[transport |-> "ok", success |-> FALSE, response |-> p] :
            p \in Contents(agent)}]
Replies(agent) == AllReplies[agent]

\* A wider choice of contents: news feeds of every length up to MaxItems, and
\* for every agent a content that is itself a string (plain text).
WideContents(agent) ==
    Contents(agent) \cup {JString(NotJSON)} \cup
    IF agent = "news" THEN {NewsResponse(n) : n \in 0..MaxItems} ELSE {}
AllWideReplies ==
    [agent \in {"news", "personality", "draft"} |->
        {TransportFailure} \cup
        {Ok(p) : p \in WideContents(agent) \cup
                        {JString(c) : c \in WideContents(agent)}} \cup
        {[transport |-> "ok", success |-> FALSE, response |-> p] :
            p \in Contents(agent)}]
WideReplies(agent) == AllWideReplies[agent]

(* ------------------------ completions of code -------------------------- *)
Return(v) == [ok |-> TRUE, value |-> v, message |-> "none"]
Throw(m) == [ok |-> FALSE, value |-> Undefined, message |-> m]

\* JSON.parse of a string value
JSON_parse(s) ==
    IF s.parsesTo = NotJSON THEN Throw("SyntaxError") ELSE Return(s.parsesTo)

\* JSON.stringify: undefined stays undefined, anything else becomes its text
JSON_stringify(v) == IF v = Undefined THEN Undefined ELSE JString(v)

\* faulty variant: the success flag of the reply is not looked at
callAgentIgnoresSuccess(reply) ==
    IF reply.transport = "failed" THEN Throw("Failed to fetch")
    ELSE Return(reply.response)

\* callAgent after its awaits (lines 104-106)
callAgent(reply) ==
    IF reply.transport = "failed" THEN Throw("Failed to fetch")
    ELSE IF ~reply.success THEN Throw("Agent call failed")
    ELSE Return(reply.response)

\* faulty variant: a string payload is not parsed
DecodeKeepsStrings(data) == Return(data)

\* faulty variant: relevance scores above 1 are clamped to 1 while decoding
DecodeClamps(data) ==
    LET d == IF data.type = "string" THEN JSON_parse(data) ELSE Return(data) IN
    IF d.ok /\ d.value.type = "object" /\ d.value.news_summary.type = "array"
    THEN Return([d.value EXCEPT !.news_summary.elems =
                    [i \in DOMAIN @ |->
                        [@[i] EXCEPT !.relevance_score = IF @ > 10 THEN 10 ELSE @]]])
    ELSE d

\* typeof data === 'string' ? JSON.parse(data) : data  (lines 119-120 etc.)
Decode(data) == IF data.type = "string" THEN JSON_parse(data) ELSE Return(data)

\* callAgent followed by the decode of its result
Stage(reply) ==
    LET c == callAgent(reply) IN IF c.ok THEN Decode(c.value) ELSE c

\* faulty variant: optional chaining, x?.name, which yields undefined on null
GetOptional(x, name) ==
    IF x.type = "object" THEN Return(x[name]) ELSE Return(Undefined)

\* property access x.name: throws on null and undefined
Get(x, name) ==
    IF x.type \in {"null", "undefined"} THEN Throw("TypeError")
    ELSE IF x.type = "object" THEN Return(x[name])
    ELSE Return(Undefined)

Min(a, b) == IF a < b THEN a ELSE b

\* faulty variant: the whole array is taken
SliceAll(x) == IF x.type = "array" THEN Return(x) ELSE Throw("TypeError")

\* x.slice(0, 3): defined on arrays only among the values modelled
Slice3(x) ==
    IF x.type = "array"
    THEN Return(JArray(SubSeq(x.elems, 1, Min(3, Len(x.elems)))))
    ELSE Throw("TypeError")

\* JSON.stringify(newsResult.news_summary.slice(0, 3))  (lines 134, 169)
newsContext(news) ==
    LET g == Get(news, "news_summary") IN
    IF ~g.ok THEN g
    ELSE LET s == Slice3(g.value) IN
         IF ~s.ok THEN s ELSE Return(JSON_stringify(s.value))

\* faulty variant: the profile is left out of the instruction
personalityContextLeftOut(personality) == Return(Undefined)

\* JSON.stringify(personalityResult.personality_profile)  (lines 135-137)
personalityContext(personality) ==
    LET g == Get(personality, "personality_profile") IN
    IF ~g.ok THEN g ELSE Return(JSON_stringify(g.value))

\* faulty variant: the guard of line 164 left out
FalsyNever(x) == FALSE

\* !x of the guards (lines 164, 197): of the values modelled, null and
\* undefined are falsy
Falsy(x) == x.type \in {"null", "undefined"}

(* ------------------------------- state --------------------------------- *)
VARIABLES
    result,             \* the WorkflowResult held by useState (lines 79-85)
    pc,                 \* per invocation: the await it is suspended at
    handler,            \* per invocation: which handler is running
    newsResult,         \* local of handleGenerateDraft (line 119)
    personalityResult,  \* local of handleGenerateDraft (line 128)
    inflight,           \* fetches issued by callAgent and not yet answered
    pre,                \* history: news/personality/draft at invocation
    issued,             \* history: agents called by the invocation, in order
    outcome,            \* history: how the invocation ended
    promise,            \* settlement of the promise the handler returned
    copied,             \* the copied flag held by useState (line 86)
    clipboard,          \* the text navigator.clipboard holds (line 221)
    saved,              \* the file the browser downloaded last (lines 210-216)
    timers              \* pending setTimeout callbacks of line 223

vars == <<result, pc, handler, newsResult, personalityResult, inflight, pre,
          issued, outcome, promise, copied, clipboard, saved, timers>>

\* what copy and save act on, outside the WorkflowResult
effects == <<copied, clipboard, saved, timers>>

\* nothing written to the clipboard, nothing downloaded
Nothing == [type |-> "nothing"]

NoError == "null"

\* the fields a run can commit, as a snapshot
Fields(res) == [news |-> res.news, personality |-> res.personality, draft |-> res.draft]

\* pre[r] of an invocation that is not running, and of one during which
\* another invocation was in progress
NoSnapshot == [type |-> "none"]
Overlapped == [type |-> "overlapped"]

\* the request callAgent posts (lines 95-102); the two contexts are the parts
\* of the draft instruction that vary, wording distinguishes the two prompts
Request(r, agent, pctx, nctx, wording) ==
    [run |-> r, agent_id |-> agent, personalityContext |-> pctx,
     newsContext |-> nctx, wording |-> wording]

Init ==
    /\ result = [news |-> JNull, personality |-> JNull, draft |-> JNull,
                 loading |-> FALSE, error |-> NoError]
    /\ pc = [r \in Runs |-> "idle"]
    /\ handler = [r \in Runs |-> "none"]
    /\ newsResult = [r \in Runs |-> Undefined]
    /\ personalityResult = [r \in Runs |-> Undefined]
    /\ inflight = {}
    /\ pre = [r \in Runs |-> NoSnapshot]
    /\ issued = [r \in Runs |-> <<>>]
    /\ outcome = [r \in Runs |-> "none"]
    /\ promise = [r \in Runs |-> "none"]
    /\ copied = FALSE
    /\ clipboard = Nothing
    /\ saved = Nothing
    /\ timers = 0

Free(r) == pc[r] \in {"idle", "done"}
Running(r) == ~Free(r)

\* a new invocation takes the first free slot
Fresh(r) == Free(r) /\ \A q \in Runs : q < r => Running(q)

\* pre after invocation r began and stays in progress
Begin(r) ==
    IF \E q \in Runs : Running(q)
    THEN [q \in Runs |-> IF q = r \/ Running(q) THEN Overlapped ELSE pre[q]]
    ELSE [pre EXCEPT ![r] = Fields(result)]

\* faulty variant: loading is not set when a run starts
SetLoadingForgotten(res) == [res EXCEPT !.error = NoError]

\* faulty variant: the previous error is not cleared when a run starts
SetLoadingKeepsError(res) == [res EXCEPT !.loading = TRUE]

\* setResult((prev) => ({ ...prev, loading: true, error: null }))  (110, 166)
SetLoading(res) == [res EXCEPT !.loading = TRUE, !.error = NoError]

\* faulty variant: the catch block drops the draft shown so far
CatchErrorDropsDraft(res, message) ==
    [res EXCEPT !.loading = FALSE, !.error = message, !.draft = JNull]

\* faulty variant: the catch block resets the state instead of spreading prev
CatchErrorResets(res, message) ==
    [news |-> JNull, personality |-> JNull, draft |-> JNull,
     loading |-> FALSE, error |-> message]

\* faulty variant: the catch block forgets loading: false
CatchErrorKeepsLoading(res, message) == [res EXCEPT !.error = message]

\* the catch blocks (lines 154-160 and 187-193)
CatchError(res, message) == [res EXCEPT !.loading = FALSE, !.error = message]

\* faulty variant: news already held is kept instead of the news of this run
CommitAllKeepsNews(news, personality, draft) ==
    [news |-> IF result.news # JNull THEN result.news ELSE news,
     personality |-> personality, draft |-> draft,
     loading |-> FALSE, error |-> NoError]

\* setResult of the full pipeline (lines 147-153)
CommitAll(news, personality, draft) ==
    [news |-> news, personality |-> personality, draft |-> draft,
     loading |-> FALSE, error |-> NoError]

\* faulty variant: the regenerate commit does not spread prev
CommitDraftOnly(res, draft) ==
    [news |-> JNull, personality |-> JNull, draft |-> draft,
     loading |-> FALSE, error |-> res.error]

\* setResult of the regenerate path (lines 182-186)
CommitDraft(res, draft) == [res EXCEPT !.draft = draft, !.loading = FALSE]

\* the handler returns: its frame is gone and its promise fulfils
Finish(r, how) ==
    /\ pc' = [pc EXCEPT ![r] = "done"]
    /\ outcome' = [outcome EXCEPT ![r] = how]
    /\ promise' = [promise EXCEPT ![r] = "fulfilled"]
    /\ newsResult' = [newsResult EXCEPT ![r] = Undefined]
    /\ personalityResult' = [personalityResult EXCEPT ![r] = Undefined]
    /\ pre' = [pre EXCEPT ![r] = NoSnapshot]

\* faulty variant: no catch block, the error leaves the handler uncaught
FailUncaught(r, message, step) ==
    /\ UNCHANGED result
    /\ Finish(r, step)

\* the invocation ends in its catch block at the given step of the handler
Fail(r, message, step) ==
    /\ result' = CatchError(result, message)
    /\ Finish(r, step)

\* faulty variant: the news and personality agents are called together
handleGenerateDraftParallel(r) ==
    /\ UNCHANGED effects
    /\ Fresh(r)
    /\ result' = SetLoading(result)
    /\ pc' = [pc EXCEPT ![r] = "awaitNews"]
    /\ handler' = [handler EXCEPT ![r] = "generate"]
    /\ inflight' = inflight \cup
            {Request(r, AGENT_IDS.news, Undefined, Undefined, "fixed"),
             Request(r, AGENT_IDS.personality, Undefined, Undefined, "fixed")}
    /\ pre' = Begin(r)
    /\ issued' = [issued EXCEPT ![r] = <<AGENT_IDS.news, AGENT_IDS.personality>>]
    /\ outcome' = [outcome EXCEPT ![r] = "running"]
    /\ promise' = [promise EXCEPT ![r] = "pending"]
    /\ UNCHANGED <<newsResult, personalityResult>>

\* handleGenerateDraft up to its first await (lines 109-117)
handleGenerateDraft(r) ==
    /\ UNCHANGED effects
    /\ Fresh(r)
    /\ result' = SetLoading(result)
    /\ pc' = [pc EXCEPT ![r] = "awaitNews"]
    /\ handler' = [handler EXCEPT ![r] = "generate"]
    /\ inflight' = inflight \cup
            {Request(r, AGENT_IDS.news, Undefined, Undefined, "fixed")}
    /\ pre' = Begin(r)
    /\ issued' = [issued EXCEPT ![r] = <<AGENT_IDS.news>>]
    /\ outcome' = [outcome EXCEPT ![r] = "running"]
    /\ promise' = [promise EXCEPT ![r] = "pending"]
    /\ UNCHANGED <<newsResult, personalityResult>>

\* faulty variant: a failed news call is posted once more
NewsReplyRetries(r, q, reply) ==
    /\ UNCHANGED effects
    /\ pc[r] = "awaitNews"
    /\ q \in inflight /\ q.run = r /\ q.agent_id = AGENT_IDS.news
    /\ LET s == Stage(reply) IN
       IF s.ok
       THEN /\ newsResult' = [newsResult EXCEPT ![r] = s.value]
            /\ inflight' = (inflight \ {q}) \cup
                  {Request(r, AGENT_IDS.personality, Undefined, Undefined, "fixed")}
            /\ issued' = [issued EXCEPT ![r] = Append(@, AGENT_IDS.personality)]
            /\ pc' = [pc EXCEPT ![r] = "awaitPersonality"]
            /\ UNCHANGED <<result, outcome, promise, personalityResult, pre>>
       ELSE IF Len(issued[r]) < 2
       THEN /\ issued' = [issued EXCEPT ![r] = Append(@, AGENT_IDS.news)]
            /\ UNCHANGED <<result, pc, newsResult, personalityResult, inflight,
                           pre, outcome, promise>>
       ELSE /\ Fail(r, s.message, "failed1")
            /\ inflight' = inflight \ {q}
            /\ UNCHANGED issued
    /\ UNCHANGED handler

\* the news request q of invocation r is answered by reply: lines 114-126
NewsReply(r, q, reply) ==
    /\ UNCHANGED effects
    /\ pc[r] = "awaitNews"
    /\ q \in inflight /\ q.run = r /\ q.agent_id = AGENT_IDS.news
    /\ LET s == Stage(reply) IN
       IF s.ok
       THEN /\ newsResult' = [newsResult EXCEPT ![r] = s.value]
            /\ inflight' = (inflight \ {q}) \cup
                  {Request(r, AGENT_IDS.personality, Undefined, Undefined, "fixed")}
            /\ issued' = [issued EXCEPT ![r] = Append(@, AGENT_IDS.personality)]
            /\ pc' = [pc EXCEPT ![r] = "awaitPersonality"]
            /\ UNCHANGED <<result, outcome, promise, personalityResult, pre>>
       ELSE /\ Fail(r, s.message, "failed1")
            /\ inflight' = inflight \ {q}
            /\ UNCHANGED issued
    /\ UNCHANGED handler

\* the news reply arrives, whatever the agent answers
NewsReplied(r) ==
    \E q \in inflight, reply \in Replies(AGENT_IDS.news) : NewsReply(r, q, reply)

\* the personality request q of invocation r is answered by reply:
\* lines 123-142
PersonalityReply(r, q, reply) ==
    /\ UNCHANGED effects
    /\ pc[r] = "awaitPersonality"
    /\ q \in inflight /\ q.run = r /\ q.agent_id = AGENT_IDS.personality
    /\ LET s == Stage(reply)
           nctx == newsContext(newsResult[r])
           pctx == personalityContext(s.value)
       IN
       IF ~s.ok
       THEN /\ Fail(r, s.message, "failed2")
            /\ inflight' = inflight \ {q}
            /\ UNCHANGED issued
       ELSE IF ~nctx.ok \/ ~pctx.ok
       THEN /\ Fail(r, IF ~nctx.ok THEN nctx.message ELSE pctx.message,
                    "failed3")
            /\ inflight' = inflight \ {q}
            /\ UNCHANGED issued
       ELSE /\ personalityResult' = [personalityResult EXCEPT ![r] = s.value]
            /\ inflight' = (inflight \ {q}) \cup
                  {Request(r, AGENT_IDS.draft, pctx.value, nctx.value, "first")}
            /\ issued' = [issued EXCEPT ![r] = Append(@, AGENT_IDS.draft)]
            /\ pc' = [pc EXCEPT ![r] = "awaitDraft"]
            /\ UNCHANGED <<result, outcome, promise, newsResult, pre>>
    /\ UNCHANGED handler

\* the personality reply arrives, whatever the agent answers
PersonalityReplied(r) ==
    \E q \in inflight, reply \in Replies(AGENT_IDS.personality) :
        PersonalityReply(r, q, reply)

\* the draft request q of the full pipeline r is answered by reply:
\* lines 139-161
DraftReply(r, q, reply) ==
    /\ UNCHANGED effects
    /\ pc[r] = "awaitDraft" /\ handler[r] = "generate"
    /\ q \in inflight /\ q.run = r /\ q.agent_id = AGENT_IDS.draft
    /\ inflight' = inflight \ {q}
    /\ LET s == Stage(reply) IN
       IF s.ok
       THEN /\ result' = CommitAll(newsResult[r], personalityResult[r], s.value)
            /\ Finish(r, "success")
       ELSE Fail(r, s.message, "failed3")
    /\ UNCHANGED <<handler, issued>>

\* the draft reply of the full pipeline arrives, whatever the agent answers
DraftReplied(r) ==
    \E q \in inflight, reply \in Replies(AGENT_IDS.draft) : DraftReply(r, q, reply)

\* handleRegenerateDraft up to its await (lines 163-177)
handleRegenerateDraft(r) ==
    /\ UNCHANGED effects
    /\ Fresh(r)
    /\ handler' = [handler EXCEPT ![r] = "regenerate"]
    /\ LET nctx == newsContext(result.news)
           pctx == personalityContext(result.personality)
       IN
       IF Falsy(result.news) \/ Falsy(result.personality)
       THEN /\ Finish(r, "rejected")
            /\ issued' = [issued EXCEPT ![r] = <<>>]
            /\ UNCHANGED <<result, inflight>>
       ELSE IF ~nctx.ok \/ ~pctx.ok
       THEN /\ Fail(r, IF ~nctx.ok THEN nctx.message ELSE pctx.message, "failed3")
            /\ issued' = [issued EXCEPT ![r] = <<>>]
            /\ UNCHANGED inflight
       ELSE /\ result' = SetLoading(result)
            /\ pc' = [pc EXCEPT ![r] = "awaitDraft"]
            /\ outcome' = [outcome EXCEPT ![r] = "running"]
            /\ promise' = [promise EXCEPT ![r] = "pending"]
            /\ issued' = [issued EXCEPT ![r] = <<AGENT_IDS.draft>>]
            /\ inflight' = inflight \cup
                  {Request(r, AGENT_IDS.draft, pctx.value, nctx.value, "new")}
            /\ pre' = Begin(r)
            /\ UNCHANGED <<newsResult, personalityResult>>

\* the draft request q of the regenerate path r is answered by reply:
\* lines 174-194
RegeneratedDraftReply(r, q, reply) ==
    /\ UNCHANGED effects
    /\ pc[r] = "awaitDraft" /\ handler[r] = "regenerate"
    /\ q \in inflight /\ q.run = r /\ q.agent_id = AGENT_IDS.draft
    /\ inflight' = inflight \ {q}
    /\ LET s == Stage(reply) IN
       IF s.ok
       THEN /\ result' = CommitDraft(result, s.value)
            /\ Finish(r, "success")
       ELSE Fail(r, s.message, "failed3")
    /\ UNCHANGED <<handler, issued>>

\* the draft reply of the regenerate path arrives, whatever the agent answers
RegeneratedDraftReplied(r) ==
    \E q \in inflight, reply \in Replies(AGENT_IDS.draft) :
        RegeneratedDraftReply(r, q, reply)

\* The handlers as functions: any caller, at any time.
Next ==
    \E r \in Runs :
        \/ handleGenerateDraft(r)
        \/ handleRegenerateDraft(r)
        \/ NewsReplied(r)
        \/ PersonalityReplied(r)
        \/ DraftReplied(r)
        \/ RegeneratedDraftReplied(r)

Spec == Init /\ [][Next]_vars

\* Every call that callAgent issued is answered or fails in the end: the
\* await of lines 95, 104 resumes the handler.
Replying(r) ==
    \/ NewsReplied(r)
    \/ PersonalityReplied(r)
    \/ DraftReplied(r)
    \/ RegeneratedDraftReplied(r)

\* The handlers as the page wires them: the Generate button is disabled while
\* loading (lines 316-323); the Regenerate button is rendered only when a
\* draft is shown and is disabled while loading (lines 325-335).
ClickGenerate(r) == ~result.loading /\ handleGenerateDraft(r)
ClickRegenerate(r) ==
    ~Falsy(result.draft) /\ ~result.loading /\ handleRegenerateDraft(r)

NextUI ==
    \E r \in Runs :
        \/ ClickGenerate(r)
        \/ ClickRegenerate(r)
        \/ NewsReplied(r)
        \/ PersonalityReplied(r)
        \/ DraftReplied(r)
        \/ RegeneratedDraftReplied(r)

SpecUI == Init /\ [][NextUI]_vars

\* The page as wired, every issued call being answered in the end.
FairSpecUI == SpecUI /\ \A r \in Runs : WF_vars(Replying(r))

\* what the run handlers act on
workflow == <<result, pc, handler, newsResult, personalityResult, inflight, pre,
              issued, outcome, promise>>

\* faulty variant: no guard, the message read as result.draft?.draft_message
handleCopyDraftUnguarded ==
    /\ UNCHANGED workflow
    /\ timers < MaxTimers
    /\ clipboard' = IF result.draft.type = "object"
                    THEN result.draft.draft_message ELSE Undefined
    /\ copied' = TRUE
    /\ timers' = timers + 1
    /\ UNCHANGED saved

\* handleCopyDraft (lines 219-224); the write to the clipboard is not awaited
\* and may be refused by the browser
handleCopyDraft ==
    /\ UNCHANGED workflow
    /\ IF Falsy(result.draft) THEN UNCHANGED effects
       ELSE LET g == Get(result.draft, "draft_message") IN
            IF ~g.ok THEN UNCHANGED effects
            ELSE /\ timers < MaxTimers
                 /\ clipboard' \in {g.value, clipboard}
                 /\ copied' = TRUE
                 /\ timers' = timers + 1
                 /\ UNCHANGED saved

\* the callback of setTimeout(() => setCopied(false), 2000)  (line 223)
CopiedExpires ==
    /\ timers > 0
    /\ timers' = timers - 1
    /\ copied' = FALSE
    /\ UNCHANGED <<workflow, clipboard, saved>>

\* handleSaveDraft (lines 196-217): the file downloaded holds the text of
\* the draft message, the personality and the news items; its timestamp and
\* name come from the clock and are left out
handleSaveDraft ==
    /\ UNCHANGED workflow
    /\ IF Falsy(result.draft) THEN UNCHANGED effects
       ELSE LET g == Get(result.draft, "draft_message") IN
            IF ~g.ok THEN UNCHANGED effects
            ELSE /\ saved' = JSON_stringify(
                        [type |-> "object", draft |-> g.value,
                         personality |-> result.personality,
                         news |-> IF result.news.type = "object"
                                  THEN result.news.news_summary ELSE Undefined])
                 /\ UNCHANGED <<copied, clipboard, timers>>

\* The page as wired for the runs, copy and save taken as functions that may
\* be called in any state, a draft being shown or not.
NextExport ==
    \/ \E r \in Runs :
          \/ ClickGenerate(r)
          \/ ClickRegenerate(r)
          \/ NewsReplied(r)
          \/ PersonalityReplied(r)
          \/ DraftReplied(r)
          \/ RegeneratedDraftReplied(r)
    \/ handleCopyDraft
    \/ handleSaveDraft
    \/ CopiedExpires

SpecExport == Init /\ [][NextExport]_vars

\* The replies arriving, the agents answering with any of the wider contents.
NewsAnswered(r) ==
    \E q \in inflight, reply \in WideReplies(AGENT_IDS.news) :
        NewsReply(r, q, reply)
PersonalityAnswered(r) ==
    \E q \in inflight, reply \in WideReplies(AGENT_IDS.personality) :
        PersonalityReply(r, q, reply)
DraftAnswered(r) ==
    \E q \in inflight, reply \in WideReplies(AGENT_IDS.draft) :
        DraftReply(r, q, reply)
RegeneratedDraftAnswered(r) ==
    \E q \in inflight, reply \in WideReplies(AGENT_IDS.draft) :
        RegeneratedDraftReply(r, q, reply)

\* The page as wired, with the wider contents.
NextWide ==
    \E r \in Runs :
        \/ ClickGenerate(r)
        \/ ClickRegenerate(r)
        \/ NewsAnswered(r)
        \/ PersonalityAnswered(r)
        \/ DraftAnswered(r)
        \/ RegeneratedDraftAnswered(r)

SpecWide == Init /\ [][NextWide]_vars

(* ------------------------------ properties ----------------------------- *)
\* a field of WorkflowResult is present when it is not null (lines 69-75)
Present(x) == x # JNull

\* the transition is a step of invocation r
Stepped(r) ==
    \/ pc'[r] # pc[r]
    \/ outcome'[r] # outcome[r]
    \/ handler'[r] # handler[r]
    \/ promise'[r] # promise[r]

\* invocation r of the full pipeline ends with the given outcome in this
\* transition, and no other invocation was in progress during it
GenerateEnds(r, how) ==
    /\ handler[r] = "generate" /\ outcome[r] = "running" /\ outcome'[r] = how
    /\ pre[r] # Overlapped

\* a decoded news result of the shape of NewsResponse
IsNewsResponse(v) == v.type = "object" /\ v.news_summary.type = "array"
\* a decoded profile result of the shape of PersonalityResponse
IsPersonalityResponse(v) == v.type = "object" /\ v.personality_profile.type = "object"

\* C1 as stated: when stage 1 succeeded and stage 2 fails, the news result of
\* this run is committed, personality and draft keep their pre-run values,
\* loading is false and an error is present.
C1_NewsCommittedWhenProfileFails ==
    [][\A r \in Runs :
        (GenerateEnds(r, "failed2") /\ IsNewsResponse(newsResult[r])) =>
            /\ result'.news = newsResult[r]
            /\ result'.personality = pre[r].personality
            /\ result'.draft = pre[r].draft
            /\ ~result'.loading /\ result'.error # NoError]_vars

\* C1 amended: when stage 1 succeeded and stage 2 fails, news, personality and
\* draft all keep their pre-run values (the news result of this run is
\* dropped), loading is false and an error is present.
C1_NothingCommittedWhenProfileFails ==
    [][\A r \in Runs :
        (GenerateEnds(r, "failed2") /\ IsNewsResponse(newsResult[r])) =>
            /\ Fields(result') = pre[r]
            /\ ~result'.loading /\ result'.error # NoError]_vars

C1_Witness ==
    \E r \in Runs :
        /\ handler[r] = "generate" /\ outcome[r] = "failed2"
        /\ Present(result.draft) /\ ~result.loading /\ result.error # NoError

\* C2 as stated: when stages 1 and 2 succeeded and stage 3 fails, the news and
\* personality results of this run are committed, draft keeps its pre-run
\* value, loading is false and an error is present.
C2_NewsAndProfileCommittedWhenDraftFails ==
    [][\A r \in Runs :
        (GenerateEnds(r, "failed3") /\ pc[r] = "awaitDraft") =>
            /\ result'.news = newsResult[r]
            /\ result'.personality = personalityResult[r]
            /\ result'.draft = pre[r].draft
            /\ ~result'.loading /\ result'.error # NoError]_vars

\* C2 amended: when stages 1 and 2 succeeded and stage 3 fails, news,
\* personality and draft all keep their pre-run values (the results of this
\* run are dropped), loading is false and an error is present.
C2_NothingCommittedWhenDraftFails ==
    [][\A r \in Runs :
        GenerateEnds(r, "failed3") =>
            /\ Fields(result') = pre[r]
            /\ ~result'.loading /\ result'.error # NoError]_vars

C2_Witness ==
    \E r \in Runs :
        /\ handler[r] = "generate" /\ outcome[r] = "failed3"
        /\ Len(issued[r]) = 3
        /\ Present(result.personality) /\ ~result.loading /\ result.error # NoError

\* C3 as stated: when a full pipeline run that no other run overlaps completes
\* with all three stages passed, loading is false, error is null, and news,
\* personality and draft are all present and are the results of this run.
C3_SuccessfulRunCommitsAllPresent ==
    [][\A r \in Runs :
        (/\ GenerateEnds(r, "success")
         /\ IsNewsResponse(newsResult[r])
         /\ IsPersonalityResponse(personalityResult[r])) =>
            /\ ~result'.loading /\ result'.error = NoError
            /\ result'.news = newsResult[r] /\ Present(result'.news)
            /\ result'.personality = personalityResult[r]
            /\ Present(result'.personality)
            /\ Present(result'.draft)]_vars

\* C4: when stage 1 of a full pipeline run fails (transport error, success
\* false, or a payload that does not parse), and no other run was in progress
\* during it, news, personality and draft have their pre-run values, loading
\* is false and an error is present.
C4_Stage1FailureKeepsAll ==
    [][\A r \in Runs :
        GenerateEnds(r, "failed1") =>
            /\ Fields(result') = pre[r]
            /\ ~result'.loading /\ result'.error # NoError]_vars

C4_Witness ==
    \E r \in Runs :
        /\ handler[r] = "generate" /\ outcome[r] = "failed1"
        /\ Present(result.news) /\ ~result.loading /\ result.error # NoError

\* C5: no step of a regenerate invocation changes news or personality; draft
\* changes only in the step where the draft stage succeeds; when the invocation
\* fails draft is unchanged, loading is false and an error is present.
C5_RegenerateTouchesOnlyDraft ==
    [][\A r \in Runs :
        (handler'[r] = "regenerate" /\ Stepped(r)) =>
            /\ result'.news = result.news
            /\ result'.personality = result.personality
            /\ (outcome'[r] # "success" => result'.draft = result.draft)
            /\ (outcome'[r] = "failed3" =>
                    ~result'.loading /\ result'.error # NoError)]_vars

C5_Witness ==
    \E r \in Runs :
        /\ handler[r] = "regenerate" /\ outcome[r] = "failed3"
        /\ Present(result.draft) /\ result.error # NoError

\* handleRegenerateDraft is invoked in slot r while news or personality is null
RegenerateWithoutContext(r) ==
    /\ Free(r) /\ handler'[r] = "regenerate" /\ Stepped(r)
    /\ (~Present(result.news) \/ ~Present(result.personality))

\* C6 as stated: handleRegenerateDraft invoked while news or personality is
\* absent signals an error to its caller, issues no agent call and leaves the
\* whole workflow state unchanged.
C6_PreconditionErrorSignalled ==
    [][\A r \in Runs :
        RegenerateWithoutContext(r) =>
            /\ promise'[r] = "rejected"
            /\ inflight' = inflight
            /\ result' = result]_vars

\* C6 amended: handleRegenerateDraft invoked while news or personality is
\* absent returns normally without signalling anything (its promise fulfils),
\* issues no agent call and leaves the whole workflow state unchanged.
C6_SilentNoOpWithoutContext ==
    [][\A r \in Runs :
        RegenerateWithoutContext(r) =>
            /\ promise'[r] = "fulfilled" /\ outcome'[r] = "rejected"
            /\ issued'[r] = <<>>
            /\ inflight' = inflight
            /\ result' = result]_vars

C6_Witness ==
    \E r \in Runs :
        /\ handler[r] = "regenerate" /\ outcome[r] = "rejected"
        /\ ~Present(result.news) /\ result.loading

\* C7: in every reachable state, under any interleaving of invocations,
\* loading = true implies error = null.
C7_LoadingImpliesNoError == result.loading => result.error = NoError

C7_Witness ==
    /\ result.loading /\ result.error = NoError
    /\ \E r \in Runs : outcome[r] \in {"failed1", "failed2", "failed3"}

\* C8: in every reachable state, draft present implies news present and
\* personality present.
C8_DraftImpliesNewsAndProfile ==
    Present(result.draft) => Present(result.news) /\ Present(result.personality)

C8_Witness ==
    /\ Present(result.draft) /\ Present(result.news) /\ Present(result.personality)
    /\ \E r \in Runs : handler[r] = "regenerate" /\ outcome[r] = "success"

\* the requests of invocation r that are in flight
InFlightOf(r) == {q \in inflight : q.run = r}

Pipeline == <<AGENT_IDS.news, AGENT_IDS.personality, AGENT_IDS.draft>>

\* C9: a full pipeline run calls the agents in the order news, personality,
\* draft; the personality call is issued only once the news reply is decoded,
\* the draft call only once the personality reply is decoded, and at most one
\* call of the run is in flight at any time.
C9_StagesStrictlySequential ==
    \A r \in Runs :
        (handler[r] = "generate" /\ Running(r)) =>
            /\ Len(issued[r]) \in 1..3
            /\ issued[r] = SubSeq(Pipeline, 1, Len(issued[r]))
            /\ Cardinality(InFlightOf(r)) = 1
            /\ \A q \in InFlightOf(r) : q.agent_id = issued[r][Len(issued[r])]
            /\ (Len(issued[r]) >= 2 <=> newsResult[r] # Undefined)
            /\ (Len(issued[r]) >= 3 <=> personalityResult[r] # Undefined)

C9_Witness ==
    \E r \in Runs :
        /\ handler[r] = "generate" /\ pc[r] = "awaitDraft"
        /\ issued[r] = Pipeline /\ Cardinality(InFlightOf(r)) = 1

\* C10 as stated: a reply whose payload does not decode into the stage's
\* shape fails the run at that stage, so the draft agent is never called with
\* a context derived from such a payload and no such payload is committed.
C10_MalformedPayloadNeverPropagates ==
    /\ \A q \in inflight :
          q.agent_id = AGENT_IDS.draft =>
              q.newsContext # Undefined /\ q.personalityContext # Undefined
    /\ Present(result.news) => IsNewsResponse(result.news)
    /\ Present(result.personality) => IsPersonalityResponse(result.personality)

\* the transition is invocation r receiving reply as the answer to its call q
Answered(r, q, reply) ==
    \/ NewsReply(r, q, reply)
    \/ PersonalityReply(r, q, reply)
    \/ DraftReply(r, q, reply)
    \/ RegeneratedDraftReply(r, q, reply)

\* the replies that fail a stage by themselves: no answer at all, an answer
\* with success false, an answer whose payload is a string that is not JSON
AllFailedReplies ==
    [agent \in DOMAIN AllReplies |->
        {reply \in Replies(agent) :
            \/ reply.transport = "failed"
            \/ ~reply.success
            \/ reply.response = JString(NotJSON)}]
FailedReplies(agent) == AllFailedReplies[agent]

\* no agent occurs twice in a sequence of calls
NoRepeat(calls) ==
    \A i, j \in 1..Len(calls) : calls[i] = calls[j] => i = j

\* C11: a transport error, a reply with success false or a payload that
\* cannot be decoded ends the run in the very step that receives it: the run
\* is over with a failure outcome, it has no call in flight and it has issued
\* no call in that step; no step makes a run call an agent a second time,
\* and a run that ends leaves no call in flight.
C11_FailureAbortsWithoutRetry ==
    [][\A r \in Runs :
        /\ issued'[r] # issued[r] => NoRepeat(issued'[r])
        /\ (pc'[r] # pc[r] /\ pc'[r] = "done") => \A q \in inflight' : q.run # r
        /\ Running(r) =>
              \A q \in InFlightOf(r) \ inflight' :
              \A reply \in FailedReplies(q.agent_id) :
                  Answered(r, q, reply) =>
                      /\ pc'[r] = "done"
                      /\ outcome'[r] \in {"failed1", "failed2", "failed3"}
                      /\ issued'[r] = issued[r]
                      /\ inflight' = inflight \ {q}]_vars

C11_Witness ==
    \E r \in Runs :
        /\ handler[r] = "generate" /\ outcome[r] = "failed1"
        /\ issued[r] = <<AGENT_IDS.news>> /\ InFlightOf(r) = {}
        /\ \E o \in Runs : o # r /\ Running(o) /\ Len(issued[o]) = 1

\* the replies that report success false
AllRemoteFailures ==
    [agent \in DOMAIN AllReplies |->
        {reply \in Replies(agent) : reply.transport = "ok" /\ ~reply.success}]
RemoteFailures(agent) == AllRemoteFailures[agent]

\* C12: when a reply with success false is received, whatever its payload,
\* the run ends in that step with news, personality and draft as they were,
\* loading false and the error of the failed call; the payload is not decoded
\* into a local of the run.
C12_RemoteFailureNeverDecoded ==
    [][\A r \in Runs :
        Running(r) =>
            \A q \in InFlightOf(r) \ inflight' :
            \A reply \in RemoteFailures(q.agent_id) :
                Answered(r, q, reply) =>
                    /\ Fields(result') = Fields(result)
                    /\ ~result'.loading /\ result'.error = "Agent call failed"
                    /\ pc'[r] = "done"
                    /\ newsResult'[r] = Undefined
                    /\ personalityResult'[r] = Undefined]_vars

C12_Witness ==
    \E r \in Runs :
        /\ outcome[r] = "failed2" /\ result.error = "Agent call failed"
        /\ ~result.loading /\ ~Present(result.personality)

\* the first three elements of a sequence, or all of them when it is shorter
FirstThree(items) == [i \in 1..Min(3, Len(items)) |-> items[i]]

\* the draft calls posted in this transition
PostedDrafts == {q \in inflight' \ inflight : q.agent_id = AGENT_IDS.draft}

\* the news result a draft call is built from: the local of the full
\* pipeline, the news held in the state for regenerate
NewsOf(q) ==
    IF handler'[q.run] = "generate" THEN newsResult[q.run] ELSE result.news

\* C13: whenever a draft call is posted, by the full pipeline or by
\* regenerate, for a news result of n items, its news context is the text of
\* the array of the first min(3, n) items in their order in the news result:
\* at most three items, item i of the context being item i of the result.
C13_NewsContextIsFirstThree ==
    [][\A q \in PostedDrafts :
        LET items == NewsOf(q).news_summary.elems
            sent == q.newsContext.parsesTo.elems
        IN
        /\ q.newsContext = JString(JArray(FirstThree(items)))
        /\ Len(sent) = Min(3, Len(items))
        /\ \A i \in 1..Len(sent) : sent[i] = items[i]]_vars

C13_Witness ==
    \E q \in inflight :
        /\ q.agent_id = AGENT_IDS.draft /\ q.wording = "new"
        /\ Len(result.news.news_summary.elems) > 3
        /\ Len(q.newsContext.parsesTo.elems) = 3
        /\ q.newsContext.parsesTo.elems[2].relevance_score >
                q.newsContext.parsesTo.elems[1].relevance_score

\* the transition is what follows from the content c answering call q of
\* invocation r as a structured value exactly when it is what follows from c
\* answering it as serialized text
SameEffect(r, q, c) ==
    Answered(r, q, Ok(c)) <=> Answered(r, q, Ok(JSON_stringify(c)))

OutOfRange ==
    {c \in WideContents(AGENT_IDS.news) :
        /\ IsNewsResponse(c)
        /\ \E i \in DOMAIN c.news_summary.elems :
              c.news_summary.elems[i].relevance_score > 10}

\* C17: a news reply whose content has a relevance score above 1, in either
\* representation, passes the stage and is decoded to that very content, and
\* the full run that succeeds commits its decoded news result as it is.
C17_OutOfRangeScoreCommitted ==
    [][\A r \in Runs :
        /\ Running(r) =>
              \A q \in InFlightOf(r) \ inflight' : \A c \in OutOfRange :
                  (NewsReply(r, q, Ok(c)) \/ NewsReply(r, q, Ok(JSON_stringify(c)))) =>
                      newsResult'[r] = c /\ pc'[r] = "awaitPersonality"
        /\ (handler[r] = "generate" /\ outcome[r] = "running"
                /\ outcome'[r] = "success") =>
              result'.news = newsResult[r]]_vars

C17_Witness ==
    /\ IsNewsResponse(result.news)
    /\ \E i \in DOMAIN result.news.news_summary.elems :
          result.news.news_summary.elems[i].relevance_score = 15
    /\ Present(result.draft) /\ ~result.loading /\ result.error = NoError

\* invocation r is over, loading is false and, if it failed, an error is shown
Ended(r) ==
    /\ pc[r] = "done" /\ ~result.loading
    /\ outcome[r] \in {"failed1", "failed2", "failed3"} => result.error # NoError

\* C15: with every issued call answered in the end, every run in progress,
\* full or regenerate, leads to a state in which it is over and loading is
\* false, with an error present if the run failed.
C15_EveryRunEnds == \A r \in Runs : Running(r) ~> Ended(r)

C15_Witness ==
    \E r \in Runs :
        /\ handler[r] = "regenerate" /\ outcome[r] = "failed3" /\ Ended(r)
        /\ result.error = "Failed to fetch"

\* the text of the first three news items of a news result
TextOfNews(news) ==
    IF IsNewsResponse(news)
    THEN JString(JArray(FirstThree(news.news_summary.elems)))
    ELSE Undefined

\* the text of the profile of a personality result, undefined when it has none
TextOfProfile(personality) ==
    IF personality.type = "object" /\ personality.personality_profile # Undefined
    THEN JString(personality.personality_profile)
    ELSE Undefined

\* C16: a regenerate run that was not rejected has called the draft agent and
\* no other agent, once; while it is in progress its one call in flight is
\* the draft call with the regenerate wording, whose contexts are the texts
\* of the news and of the profile held in the state.
C16_RegenerateCallsDraftOnly ==
    \A r \in Runs :
        handler[r] = "regenerate" =>
            /\ outcome[r] # "rejected" => issued[r] = <<AGENT_IDS.draft>>
            /\ Running(r) =>
                  InFlightOf(r) =
                      {Request(r, AGENT_IDS.draft, TextOfProfile(result.personality),
                               TextOfNews(result.news), "new")}

C16_Witness ==
    \E r \in Runs :
        /\ handler[r] = "regenerate" /\ pc[r] = "awaitDraft"
        /\ issued[r] = <<AGENT_IDS.draft>>
        /\ \E q \in InFlightOf(r) :
              /\ q.wording = "new" /\ q.personalityContext # Undefined
              /\ Len(q.newsContext.parsesTo.elems) = 2

\* the invocations in progress
InProgress == {r \in Runs : Running(r)}

\* C18: with runs started through the Generate and Regenerate buttons only,
\* at most one run is in progress in any state, and loading is true in
\* exactly the states in which a run is in progress.
C18_OneRunAtATime ==
    /\ Cardinality(InProgress) <= 1
    /\ result.loading <=> InProgress # {}

C18_Witness ==
    /\ result.loading /\ Cardinality(InProgress) = 1
    /\ \E r \in InProgress : handler[r] = "regenerate"
    /\ \E o \in Runs : pc[o] = "idle"

\* invocation r ends with a commit in this transition
Succeeds(r) == outcome[r] = "running" /\ outcome'[r] = "success"

\* C19: with runs that do not overlap, a run that commits a draft commits
\* the answer to a draft call whose contexts are the texts of the news and of
\* the profile held in the state after the commit, and a step that is not
\* the commit of a run leaves news, personality and draft as they are; so
\* in every state the draft held comes from the news and profile held.
C19_DraftBuiltFromHeldContext ==
    [][/\ \A r \in Runs :
            (Succeeds(r) /\ Present(result'.draft)) =>
                \A q \in InFlightOf(r) \ inflight' :
                    /\ q.agent_id = AGENT_IDS.draft
                    /\ q.newsContext = TextOfNews(result'.news)
                    /\ q.personalityContext = TextOfProfile(result'.personality)
       /\ (\A r \in Runs : ~Succeeds(r)) => Fields(result') = Fields(result)]_vars

C19_Witness ==
    \E r \in Runs :
        /\ handler[r] = "regenerate" /\ outcome[r] = "success"
        /\ result.news = NewsResponse(1) /\ Present(result.personality)
        /\ result.draft = DraftResponse("d1") /\ ~result.loading

\* C20 as stated: no step makes news, personality or draft absent once it is
\* present.
C20_PresentFieldsStayPresent ==
    [][/\ Present(result.news) => Present(result'.news)
       /\ Present(result.personality) => Present(result'.personality)
       /\ Present(result.draft) => Present(result'.draft)]_vars

\* C21: a step of handleCopyDraft or of handleSaveDraft leaves news,
\* personality, draft, loading and error, and every run in progress, as they
\* are; and from a state in which draft is absent no step writes to the
\* clipboard, downloads a file, sets the copied flag or starts a timer, so
\* the two handlers called without a draft change nothing at all.
C21_ExportLeavesWorkflowAlone ==
    [][/\ (handleCopyDraft \/ handleSaveDraft) =>
            /\ result' = result
            /\ UNCHANGED workflow
            /\ ~Present(result.draft) => UNCHANGED effects
       /\ ~Present(result.draft) =>
            /\ clipboard' = clipboard /\ saved' = saved
            /\ timers' <= timers /\ (copied' => copied)]_vars

C21_Witness ==
    /\ ~Present(result.draft) /\ Present(result.news)
    /\ copied /\ timers > 0
    /\ clipboard # Nothing /\ saved # Nothing

====
